---- MODULE Spec2Model ----
(***************************************************************************)
(* OmniTool: the account registry of the storage module (read-entire,      *)
(* transform, write-entire over chrome.storage.local) and the TOTP engine  *)
(* of modules/totp.js (Base32 decoding, counter encoding, dynamic          *)
(* truncation, decimal formatting).                                        *)
(***************************************************************************)
EXTENDS Integers, Sequences, FiniteSets, TLC

VARIABLES
    storage,   \* chrome.storage.local: key -> [defined, value]
    now,       \* the last reading of Date.now()
    nextId,    \* number of identifiers generateId has handed out
    last,      \* the last completed (awaited) registry call: arguments, result
    totp,      \* the generateTOTP call in progress
    popup,     \* the popup: its handlers in flight, its account list, the modal
    pure       \* the call of a synchronous function of the TOTP module

vars == <<storage, now, nextId, last, totp, popup, pure>>

registryVars == <<storage, now, nextId, last>>

(***************************************************************************)
(* Bounds of the model.                                                    *)
(***************************************************************************)
MaxLen == 2        \* longest account collection explored
MaxIds == 3        \* identifiers generateId hands out

(***************************************************************************)
(* Storage module: keys and the get / set wrappers.                        *)
(***************************************************************************)
STORAGE_KEYS ==
    [PASSWORD_OPTIONS |-> "passwordOptions", ACCOUNTS |-> "totpAccounts",
     SETTINGS |-> "appSettings"]

Undefined == [defined |-> FALSE, value |-> <<>>]

\* get(key, defaultValue): result[key] !== undefined ? result[key] : default
get(st, key, defaultValue) ==
    IF st[key].defined THEN st[key].value ELSE defaultValue

\* set(key, value): chrome.storage.local.set({[key]: value})
set(st, key, value) ==
    [st EXCEPT ![key] = [defined |-> TRUE, value |-> value]]

getAccounts(st) == get(st, STORAGE_KEYS.ACCOUNTS, <<>>)

saveAccounts(st, accounts) == set(st, STORAGE_KEYS.ACCOUNTS, accounts)

\* the default password options (the same literal in getPasswordOptions, in
\* the password module and in the installation handler)
DEFAULT_OPTIONS ==
    [length |-> 12, uppercase |-> TRUE, lowercase |-> TRUE, numbers |-> TRUE,
     symbols |-> TRUE]

getPasswordOptions(st) == get(st, STORAGE_KEYS.PASSWORD_OPTIONS, DEFAULT_OPTIONS)

savePasswordOptions(st, options) ==
    set(st, STORAGE_KEYS.PASSWORD_OPTIONS, options)

(***************************************************************************)
(* Objects are functions from field names to values; the spread            *)
(* {...a, ...b} is the shallow merge in which b's fields win.              *)
(***************************************************************************)
Spread(a, b) ==
    [k \in (DOMAIN a) \cup (DOMAIN b) |-> IF k \in DOMAIN b THEN b[k] ELSE a[k]]

\* mutant: the last record with the identifier is found
findIndex_last(accounts, id) ==
    IF \E i \in 1..Len(accounts) : accounts[i].id = id
    THEN CHOOSE i \in 1..Len(accounts) :
            /\ accounts[i].id = id
            /\ \A j \in (i + 1)..Len(accounts) : accounts[j].id # id
    ELSE 0

\* accounts.findIndex(acc => acc.id === id); 0 stands for JavaScript's -1
findIndex(accounts, id) ==
    IF \E i \in 1..Len(accounts) : accounts[i].id = id
    THEN CHOOSE i \in 1..Len(accounts) :
            /\ accounts[i].id = id
            /\ \A j \in 1..(i - 1) : accounts[j].id # id
    ELSE 0

\* mutant: only the first record with the identifier is removed
FilterOut_onlyFirst(accounts, id) ==
    IF \E i \in 1..Len(accounts) : accounts[i].id = id
    THEN LET first == CHOOSE i \in 1..Len(accounts) :
                          /\ accounts[i].id = id
                          /\ \A j \in 1..(i - 1) : accounts[j].id # id
         IN  SubSeq(accounts, 1, first - 1)
               \o SubSeq(accounts, first + 1, Len(accounts))
    ELSE accounts

\* accounts.filter(acc => acc.id !== id)
FilterOut(accounts, id) == SelectSeq(accounts, LAMBDA acc : acc.id # id)

\* mutant: the comparison never matches
some_never(existingAccounts, acc) == FALSE

\* existingAccounts.some(existing => existing.id === acc.id)
some(existingAccounts, acc) ==
    \E i \in 1..Len(existingAccounts) : existingAccounts[i].id = acc.id

\* mutant: the new record is put in front
addAccountStore_prepends(st, account, time) ==
    LET accounts == getAccounts(st)
    IN  saveAccounts(st, <<Spread(account, [createdAt |-> time,
                                            order |-> Len(accounts)])>>
                           \o accounts)

(***************************************************************************)
(* addAccount(account): push {...account, createdAt, order} and save.      *)
(***************************************************************************)
addAccountStore(st, account, time) ==
    LET accounts == getAccounts(st)
        pushed == Append(accounts,
                         Spread(account, [createdAt |-> time,
                                          order |-> Len(accounts)]))
    IN  saveAccounts(st, pushed)

\* mutant: an unknown identifier inserts the updates as a new record
updateAccountStore_upsert(st, id, updates) ==
    LET accounts == getAccounts(st)
        index == findIndex(accounts, id)
    IN  IF index # 0
        THEN saveAccounts(st, [accounts EXCEPT
                                 ![index] = Spread(accounts[index], updates)])
        ELSE saveAccounts(st, Append(accounts, Spread([id |-> id], updates)))

(***************************************************************************)
(* updateAccount(id, updates): merge over the first match, save only then. *)
(***************************************************************************)
updateAccountStore(st, id, updates) ==
    LET accounts == getAccounts(st)
        index == findIndex(accounts, id)
    IN  IF index # 0
        THEN saveAccounts(st, [accounts EXCEPT
                                 ![index] = Spread(accounts[index], updates)])
        ELSE st

\* mutant: the array saved is empty
deleteAccountStore_clears(st, id) == saveAccounts(st, <<>>)

(***************************************************************************)
(* deleteAccount(id): filter and always save.                              *)
(***************************************************************************)
deleteAccountStore(st, id) ==
    saveAccounts(st, FilterOut(getAccounts(st), id))

(***************************************************************************)
(* exportData(): the payload {version, exportedAt, accounts, settings}.    *)
(* A JavaScript value is tagged with its kind: "array" carries items,      *)
(* "other" is a truthy non-array, "null" is falsy.                         *)
(***************************************************************************)
ArrayOf(items) == [t |-> "array", items |-> items]

exportData(st, time) ==
    [t |-> "object",
     f |-> [version |-> "1.0",
            exportedAt |-> [iso |-> time],
            accounts |-> ArrayOf(getAccounts(st)),
            settings |-> get(st, STORAGE_KEYS.SETTINGS, <<>>)]]

(***************************************************************************)
(* importData(data): the try block and its catch.                          *)
(***************************************************************************)
\* !data.version : the property is absent or the empty string
VersionFalsy(data) ==
    \/ "version" \notin DOMAIN data.f
    \/ data.f.version = ""

\* !data.accounts : the property is absent or null
AccountsFalsy(data) ==
    \/ "accounts" \notin DOMAIN data.f
    \/ data.f.accounts.t = "null"

\* mutant: the scan of the payload starts at its second record
newAccountsOf_skipsFirst(existingAccounts, items) ==
    SelectSeq(IF Len(items) > 0 THEN Tail(items) ELSE items,
              LAMBDA acc : ~some(existingAccounts, acc))

\* data.accounts.filter(acc => !existingAccounts.some(...))
newAccountsOf(existingAccounts, items) ==
    SelectSeq(items, LAMBDA acc : ~some(existingAccounts, acc))

\* mutant: the guard requires both properties to be missing
InvalidFormat_both(data) == VersionFalsy(data) /\ AccountsFalsy(data)

\* the guard of line 166
InvalidFormat(data) == VersionFalsy(data) \/ AccountsFalsy(data)

\* data.accounts has a filter method
AccountsIsArray(data) ==
    /\ "accounts" \in DOMAIN data.f
    /\ data.f.accounts.t = "array"

Failure(message) == [success |-> FALSE, error |-> message]

importData(st, data) ==
    IF data.t = "null"
    THEN \* data.version throws a TypeError, caught
         [storage |-> st, result |-> Failure("TypeError: data is null")]
    ELSE IF InvalidFormat(data)
    THEN [storage |-> st, result |-> Failure("Invalid data format")]
    ELSE IF ~AccountsIsArray(data)
    THEN \* data.accounts.filter is not a function, caught
         [storage |-> st, result |-> Failure("TypeError: filter is not a function")]
    ELSE LET existingAccounts == getAccounts(st)
             items == data.f.accounts.items
             newAccounts == newAccountsOf(existingAccounts, items)
         IN  [storage |-> IF Len(newAccounts) > 0
                          THEN saveAccounts(st, existingAccounts \o newAccounts)
                          ELSE st,
              result |-> [success |-> TRUE,
                          imported |-> Len(newAccounts),
                          skipped |-> Len(items) - Len(newAccounts)]]

(***************************************************************************)
(* TOTP module.  A string is a sequence of one-character strings.          *)
(***************************************************************************)
BASE32_CHARS ==
    <<"A", "B", "C", "D", "E", "F", "G", "H", "I", "J", "K", "L", "M",
      "N", "O", "P", "Q", "R", "S", "T", "U", "V", "W", "X", "Y", "Z",
      "2", "3", "4", "5", "6", "7">>

LowerCase ==
    <<"a", "b", "c", "d", "e", "f", "g", "h", "i", "j", "k", "l", "m",
      "n", "o", "p", "q", "r", "s", "t", "u", "v", "w", "x", "y", "z">>

WhiteSpace == {" ", "\t", "\n"}

\* mutant: a character that is not in the alphabet counts as the first symbol
indexOf_lenient(char) ==
    IF \E i \in 1..Len(BASE32_CHARS) : BASE32_CHARS[i] = char
    THEN (CHOOSE i \in 1..Len(BASE32_CHARS) : BASE32_CHARS[i] = char) - 1
    ELSE 0

\* BASE32_CHARS.indexOf(char), zero-based, -1 when absent
indexOf(char) ==
    IF \E i \in 1..Len(BASE32_CHARS) : BASE32_CHARS[i] = char
    THEN (CHOOSE i \in 1..Len(BASE32_CHARS) : BASE32_CHARS[i] = char) - 1
    ELSE -1

\* encoded.replace(/\s/g, '')
RemoveWhiteSpace(str) == SelectSeq(str, LAMBDA c : c \notin WhiteSpace)

\* mutant: the case is left as it is
toUpperCase_asTyped(str) == str

\* encoded.toUpperCase()
toUpperCase(str) ==
    [i \in DOMAIN str |->
        IF \E j \in 1..Len(LowerCase) : LowerCase[j] = str[i]
        THEN BASE32_CHARS[CHOOSE j \in 1..Len(LowerCase) : LowerCase[j] = str[i]]
        ELSE str[i]]

\* encoded.replace(/=+$/, '')
RECURSIVE RemovePadding(_)
RemovePadding(str) ==
    IF Len(str) > 0 /\ str[Len(str)] = "="
    THEN RemovePadding(SubSeq(str, 1, Len(str) - 1))
    ELSE str

Normalize(encoded) == RemovePadding(toUpperCase(RemoveWhiteSpace(encoded)))

RECURSIVE Pow2(_)
Pow2(k) == IF k = 0 THEN 1 ELSE 2 * Pow2(k - 1)

\* mutant: the accumulator starts again once it would pass 32 bits
ShiftIn_overflowLost(value, charIndex) ==
    IF value < 0 \/ value >= Pow2(26) THEN charIndex
    ELSE value * 32 + charIndex

\* (value << 5) | charIndex on 32-bit signed integers: the low 27 bits move
\* up, bit 26 becomes the sign
ShiftIn(value, charIndex) ==
    LET low == value % Pow2(27)
    IN  (IF low >= Pow2(26)
         THEN (low - Pow2(26)) * 32 + (-2147483647 - 1)
         ELSE low * 32) + charIndex

\* (value >>> k) & 0xff for a 32-bit value and k <= 24
TopByte(value, k) == (value \div Pow2(k)) % 256

\* output[index] = byte on a Uint8Array: out-of-range writes are dropped
WriteByte(output, index, byte) ==
    IF index + 1 \in DOMAIN output
    THEN [output EXCEPT ![index + 1] = byte]
    ELSE output

\* the for loop of base32Decode from position i (zero-based)
RECURSIVE DecodeLoop(_, _, _, _, _, _)
DecodeLoop(encoded, i, bits, value, index, output) ==
    IF i >= Len(encoded)
    THEN [ok |-> TRUE, bytes |-> output]
    ELSE LET char == encoded[i + 1]
             charIndex == indexOf(char)
         IN  IF charIndex = -1
             THEN [ok |-> FALSE,
                   error |-> <<"Invalid Base32 character: ", char>>]
             ELSE LET value2 == ShiftIn(value, charIndex)
                      bits2 == bits + 5
                  IN  IF bits2 >= 8
                      THEN DecodeLoop(encoded, i + 1, bits2 - 8, value2,
                                      index + 1,
                                      WriteByte(output, index,
                                                TopByte(value2, bits2 - 8)))
                      ELSE DecodeLoop(encoded, i + 1, bits2, value2, index,
                                      output)

base32Decode(encoded) ==
    LET norm == Normalize(encoded)
        length == Len(norm)
        output == [k \in 1..((length * 5) \div 8) |-> 0]
    IN  DecodeLoop(norm, 0, 0, 0, 0, output)

(***************************************************************************)
(* A JavaScript number is finite (an integer here) or not (Infinity, NaN). *)
(***************************************************************************)
Finite(n) == [fin |-> TRUE, n |-> n]
NonFinite == [fin |-> FALSE, n |-> 0]

\* Math.floor(timestamp / 1000 / period)
CounterOf(timestamp, period) ==
    IF period = 0
    THEN NonFinite
    ELSE IF period > 0
    THEN Finite(timestamp \div (1000 * period))
    ELSE Finite((-timestamp) \div (1000 * (-period)))

\* numberToBytes(num): bytes[i] = num & 0xff; num = Math.floor(num / 256).
\* The bitwise AND of Infinity or NaN is 0 and their quotient stays so.
RECURSIVE BytesFrom(_, _)
BytesFrom(n, count) ==
    IF count = 0 THEN <<>>
    ELSE Append(BytesFrom(n \div 256, count - 1), n % 256)

\* A counter of 2^31 or more is written hi * 2^26 + n with n < 2^26.
Wide(hi, lo) == [fin |-> TRUE, n |-> lo, hi |-> hi]

\* mutant: a value that does not fit 32 bits is converted to the largest int32
ToInt32_clamps(hi, lo) ==
    IF hi >= 32 THEN 2147483647 ELSE hi * Pow2(26) + lo

\* the operand of num & 0xff as a signed 32-bit integer: num modulo 2^32
ToInt32(hi, lo) ==
    LET low6 == hi % 64
    IN  IF low6 >= 32 THEN (low6 - 64) * Pow2(26) + lo
        ELSE low6 * Pow2(26) + lo

\* the loop of numberToBytes on hi * 2^26 + lo
RECURSIVE WideBytesFrom(_, _, _)
WideBytesFrom(hi, lo, count) ==
    IF count = 0 THEN <<>>
    ELSE Append(WideBytesFrom(hi \div 256,
                              (hi % 256) * Pow2(18) + lo \div 256,
                              count - 1),
                ToInt32(hi, lo) % 256)

numberToBytes(num) ==
    IF ~num.fin THEN [i \in 1..8 |-> 0]
    ELSE IF "hi" \in DOMAIN num THEN WideBytesFrom(num.hi, num.n, 8)
    ELSE BytesFrom(num.n, 8)

\* dynamic truncation of generateTOTP; hmac is indexed from 1 here
offsetOf(hmac) == hmac[Len(hmac)] % 16

\* mutant: the first byte keeps its top bit, which << 24 makes the sign
binaryOf_unmasked(hmac) ==
    LET offset == offsetOf(hmac)
        first == hmac[offset + 1] % 256
    IN  (IF first >= 128 THEN first - 256 ELSE first) * Pow2(24)
          + (hmac[offset + 2] % 256) * Pow2(16)
          + (hmac[offset + 3] % 256) * Pow2(8)
          + (hmac[offset + 4] % 256)

binaryOf(hmac) ==
    LET offset == offsetOf(hmac)
    IN  (hmac[offset + 1] % 128) * Pow2(24)
          + (hmac[offset + 2] % 256) * Pow2(16)
          + (hmac[offset + 3] % 256) * Pow2(8)
          + (hmac[offset + 4] % 256)

RECURSIVE Pow10(_)
Pow10(k) == IF k = 0 THEN 1 ELSE 10 * Pow10(k - 1)

DigitChars == <<"0", "1", "2", "3", "4", "5", "6", "7", "8", "9">>

\* otp.toString() of a non-negative integer
RECURSIVE toString(_)
toString(n) ==
    IF n < 10 THEN <<DigitChars[n + 1]>>
    ELSE Append(toString(n \div 10), DigitChars[(n % 10) + 1])

\* mutant: the code is returned without padding
padStart_unpadded(str, targetLength) == str

\* str.padStart(targetLength, '0')
RECURSIVE padStart(_, _)
padStart(str, targetLength) ==
    IF Len(str) >= targetLength THEN str
    ELSE padStart(<<"0">> \o str, targetLength)

\* lines 117-119 of generateTOTP
otpOf(hmac, digits) ==
    padStart(toString(binaryOf(hmac) % Pow10(digits)), digits)

\* hmacSha1: crypto.subtle.importKey refuses a key of length zero; for any
\* other key the digest is whatever SHA-1 yields (20 bytes)
hmacAccepts(key) == Len(key) > 0

\* mutant: the middle is rounded up
formatOtp_roundsUp(code) ==
    LET mid == (Len(code) + 1) \div 2
    IN  SubSeq(code, 1, mid) \o <<" ">> \o SubSeq(code, mid + 1, Len(code))

\* formatOtp(code): `${code.slice(0, mid)} ${code.slice(mid)}`
formatOtp(code) ==
    LET mid == Len(code) \div 2
    IN  SubSeq(code, 1, mid) \o <<" ">> \o SubSeq(code, mid + 1, Len(code))

(***************************************************************************)
(* getRemainingSeconds(period), with Date.now() as a parameter.  Both      *)
(* operands are integers, now is not negative: the remainder takes the     *)
(* sign of now, and a zero period gives NaN.                               *)
(***************************************************************************)
\* mutant: the seconds elapsed in the step are subtracted from period - 1
getRemainingSeconds_fromZero(period, dateNow) ==
    IF period = 0 THEN NonFinite
    ELSE LET n == dateNow \div 1000
             abs == IF period < 0 THEN -period ELSE period
         IN  Finite(period - 1 - (n % abs))

getRemainingSeconds(period, dateNow) ==
    IF period = 0 THEN NonFinite
    ELSE LET n == dateNow \div 1000
             abs == IF period < 0 THEN -period ELSE period
         IN  Finite(period - (n % abs))

(***************************************************************************)
(* parseOtpAuthUri.  A string is a sequence of characters; in a pathname   *)
(* an element may also be an escape ("%3A", "%20") or a "%" that begins no *)
(* escape.  new URL(uri) either throws or yields the URL's protocol,       *)
(* hostname, pathname and searchParams (here a function from the names     *)
(* present to their first, already decoded, value).                        *)
(***************************************************************************)
Str_Unknown == <<"U", "n", "k", "n", "o", "w", "n">>
Str_SHA1 == <<"S", "H", "A", "1">>
Str_6 == <<"6">>
Str_30 == <<"3", "0">>

Thrown(message) == [ok |-> FALSE, error |-> message]

\* decodeURIComponent(str): URIError on a malformed escape
decodeURIComponent(str) ==
    IF \E i \in 1..Len(str) : str[i] = "%"
    THEN Thrown("URI malformed")
    ELSE [ok |-> TRUE,
          str |-> [i \in DOMAIN str |->
                      CASE str[i] = "%3A" -> ":"
                        [] str[i] = "%20" -> " "
                        [] OTHER -> str[i]]]

\* str.slice(1)
slice1(str) == SubSeq(str, 2, Len(str))

\* str.includes(sep)
includes(str, sep) == \E i \in 1..Len(str) : str[i] = sep

\* str.split(sep): the pieces between the separators
RECURSIVE split(_, _)
split(str, sep) ==
    IF ~includes(str, sep) THEN <<str>>
    ELSE LET i == CHOOSE k \in 1..Len(str) :
                      /\ str[k] = sep
                      /\ \A j \in 1..(k - 1) : str[j] # sep
         IN  <<SubSeq(str, 1, i - 1)>> \o split(SubSeq(str, i + 1, Len(str)), sep)

\* params.has(name)
has(params, name) == name \in DOMAIN params

\* params.get(name) || fallback: get is null when the name is absent
getOr(params, name, fallback) ==
    IF has(params, name) /\ params[name] # <<>> THEN params[name]
    ELSE fallback

\* mutant: the empty string is kept
Or_keepsEmpty(str, fallback) == str

\* str || fallback
Or(str, fallback) == IF str = <<>> THEN fallback ELSE str

DigitOf(char) ==
    IF \E d \in 1..10 : DigitChars[d] = char
    THEN (CHOOSE d \in 1..10 : DigitChars[d] = char) - 1
    ELSE -1

\* the value of the longest prefix of decimal digits, given the value so far
RECURSIVE DigitsPrefix(_, _)
DigitsPrefix(str, acc) ==
    IF str = <<>> \/ DigitOf(Head(str)) = -1 THEN acc
    ELSE DigitsPrefix(Tail(str), 10 * acc + DigitOf(Head(str)))

RECURSIVE SkipWhiteSpace(_)
SkipWhiteSpace(str) ==
    IF str # <<>> /\ Head(str) \in WhiteSpace THEN SkipWhiteSpace(Tail(str))
    ELSE str

\* parseInt(str, 10): leading white space, a sign, then digits up to the
\* first other character; NaN when there is no digit
parseInt(str) ==
    LET s == SkipWhiteSpace(str)
        negative == s # <<>> /\ Head(s) = "-"
        body == IF s # <<>> /\ Head(s) \in {"-", "+"} THEN Tail(s) ELSE s
    IN  IF body = <<>> \/ DigitOf(Head(body)) = -1 THEN NonFinite
        ELSE Finite(IF negative THEN -DigitsPrefix(body, 0)
                    ELSE DigitsPrefix(body, 0))

\* the body of the try block (lines 139-170)
parseBody(uri) ==
    IF uri.t = "invalid" THEN Thrown("Invalid URL")
    ELSE IF uri.protocol # "otpauth:" THEN Thrown("Invalid protocol")
    ELSE LET decoded == decodeURIComponent(slice1(uri.pathname))
         IN  IF ~decoded.ok THEN decoded
             ELSE LET path == decoded.str
                      params == uri.searchParams
                      pieces == split(path, ":")
                      fromPath == IF includes(path, ":") THEN pieces[1]
                                  ELSE <<>>
                      account == IF includes(path, ":") THEN pieces[2]
                                 ELSE path
                      issuer == IF has(params, "issuer") THEN params.issuer
                                ELSE fromPath
                  IN  [ok |-> TRUE,
                       value |->
                         [type |-> uri.hostname,
                          issuer |-> Or(issuer, Str_Unknown),
                          account |-> Or(account, Str_Unknown),
                          secret |-> getOr(params, "secret", <<>>),
                          algorithm |-> getOr(params, "algorithm", Str_SHA1),
                          digits |-> parseInt(getOr(params, "digits", Str_6)),
                          period |-> parseInt(getOr(params, "period", Str_30))]]

\* mutant: the error caught is thrown again as it is
parseOtpAuthUri_rethrows(uri) == parseBody(uri)

\* try { ... } catch (error) { throw new Error('Invalid OTP Auth URI') }
parseOtpAuthUri(uri) ==
    LET r == parseBody(uri)
    IN  IF r.ok THEN r ELSE Thrown("Invalid OTP Auth URI")

(***************************************************************************)
(* Callers' inputs.  The popup builds a new account from the form and      *)
(* generateId(); crypto.randomUUID never repeats, so the n-th call yields  *)
(* the identifier n.  Identifiers created by other installations           *)
(* (ForeignIds) only arrive through import payloads.                       *)
(***************************************************************************)
Issuers == {"GitHub"}

ForeignIds == {101}

generateId(n) == n + 1

NewAccount(id, issuer) ==
    [id |-> id, issuer |-> issuer, account |-> issuer,
     secret |-> "JBSWY3DPEHPK3PXP", digits |-> 6, period |-> 30,
     algorithm |-> "SHA1"]

\* a record of somebody else's export
ExportedAccount(id) ==
    Spread(NewAccount(id, "Imported"), [createdAt |-> 0, order |-> 0])

KnownIds == (1..nextId) \cup ForeignIds

\* identifiers listed by the accounts arrays of other installations' exports:
\* their own and the first of ours, also twice in one array
PayloadIds ==
    {<<>>, <<101>>, <<1, 101>>, <<101, 1>>, <<101, 101>>}

Payload(fields) == [t |-> "object", f |-> fields]

WellFormedPayloads ==
    {Payload([version |-> "1.0",
              accounts |-> ArrayOf([j \in DOMAIN ids |-> ExportedAccount(ids[j])])]) :
        ids \in PayloadIds}

MalformedPayloads ==
    LET one == ArrayOf(<<ExportedAccount(101)>>)
    IN  {[t |-> "null"],
         Payload([accounts |-> one]),
         Payload([version |-> "1.0"]),
         Payload([version |-> "1.0", accounts |-> [t |-> "other"]])}

UpdateSamples ==
    {[issuer |-> "GitHub"]} \cup {[id |-> i] : i \in ForeignIds}

NoData == [t |-> "none"]
NoResult == [success |-> TRUE]

\* pre: the collection the call read; post: the collection persisted in the
\* storage the call worked on, once it has completed
Call(op, pre, id, data, result, post, repeat) ==
    [op |-> op, pre |-> pre, id |-> id, data |-> data, result |-> result,
     post |-> post, repeat |-> repeat]

\* what background.js writes on installation, or nothing at all
FreshStorages ==
    {[passwordOptions |-> Undefined, totpAccounts |-> Undefined,
      appSettings |-> Undefined],
     [passwordOptions |-> [defined |-> TRUE, value |-> DEFAULT_OPTIONS],
      totpAccounts |-> [defined |-> TRUE, value |-> <<>>],
      appSettings |-> [defined |-> TRUE, value |-> <<>>]]}

CheckboxTypes == {"uppercase", "lowercase", "numbers", "symbols"}

\* applyOptionsToUI: the four checkboxes show the options
applyOptionsToUI(options) == [type \in CheckboxTypes |-> options[type]]

NoChange == [type |-> "none", checked |-> FALSE]

TotpIdle == [pc |-> "idle"]

\* the popup after init(): no handler started, the list loaded from the
\* (empty) storage, the add modal closed
PopupLoaded ==
    [handlers |-> <<>>, queue |-> <<>>, accounts |-> <<>>, modal |-> FALSE,
     lastWriter |-> 0,
     \* init() ends with startTotpUpdates(): the first interval timer runs
     totpUpdateInterval |-> 1, timers |-> {1}, timerIds |-> 1,
     lastLoop |-> "start",
     \* the tab shown when the popup opens (README: the password generator)
     activeTab |-> "password",
     \* the options a fresh storage yields, shown by the checkboxes;
     \* lastChange is the last checkbox change event handled
     currentOptions |-> DEFAULT_OPTIONS,
     checked |-> applyOptionsToUI(DEFAULT_OPTIONS), lastChange |-> NoChange,
     \* no account row is being refreshed
     refresh |-> [pc |-> "idle"],
     \* no QRScanner yet, the jsQR script not loaded, no camera in use
     qrScanner |-> 0, scanners |-> <<>>, jsQRLoaded |-> FALSE,
     cameras |-> {}, streamIds |-> 0]

PureIdle == [fn |-> "none"]

Init ==
    /\ storage \in FreshStorages
    /\ now = 0
    /\ nextId = 0
    /\ last = Call("none", <<>>, 0, NoData, NoResult, <<>>, FALSE)
    /\ totp = TotpIdle
    /\ popup = PopupLoaded
    /\ pure = PureIdle

Accounts == getAccounts(storage)

IdsOf(accounts) == {accounts[i].id : i \in 1..Len(accounts)}

IdSeq(accounts) == [i \in 1..Len(accounts) |-> accounts[i].id]

(***************************************************************************)
(* Registry calls, each awaited to completion (one step).                   *)
(***************************************************************************)
\* popup addAccount: generateId(), then storage.addAccount(newAccount)
\* (time passes between two awaited adds: each reads a later Date.now())
AddAccount(issuer) ==
    /\ nextId < MaxIds
    /\ now' = now + 1
    /\ Len(getAccounts(storage)) < MaxLen
    /\ LET id == generateId(nextId)
       IN  /\ nextId' = id
           /\ storage' = addAccountStore(storage, NewAccount(id, issuer), now')
           /\ last' = Call("add", getAccounts(storage), id, NoData, NoResult,
                           getAccounts(storage'), FALSE)
    /\ UNCHANGED <<totp, popup, pure>>

UpdateAccount(id, updates) ==
    /\ storage' = updateAccountStore(storage, id, updates)
    /\ last' = Call("update", getAccounts(storage), id,
                    [t |-> "updates", f |-> updates], NoResult,
                    getAccounts(storage'), FALSE)
    /\ UNCHANGED <<now, nextId, totp, popup, pure>>

DeleteAccount(id) ==
    /\ storage' = deleteAccountStore(storage, id)
    /\ last' = Call("delete", getAccounts(storage), id, NoData, NoResult,
                    getAccounts(storage'), FALSE)
    /\ UNCHANGED <<now, nextId, totp, popup, pure>>

ExportData ==
    /\ last' = Call("export", getAccounts(storage), 0, NoData,
                    exportData(storage, now), getAccounts(storage), FALSE)
    /\ UNCHANGED <<storage, now, nextId, totp, popup, pure>>

ImportData(data) ==
    LET r == importData(storage, data)
    IN  /\ Len(getAccounts(r.storage)) <= MaxLen
        /\ storage' = r.storage
        /\ last' = Call("import", getAccounts(storage), 0, data, r.result,
                        getAccounts(r.storage),
                        /\ last.op = "import"
                        /\ last.data = data
                        /\ last.result.success)
        /\ UNCHANGED <<now, nextId, totp, popup, pure>>

\* the payload just exported is imported by a freshly installed profile,
\* whose registry is empty
ImportExported(fresh) ==
    /\ last.op = "export"
    /\ LET r == importData(fresh, last.result)
       IN  last' = Call("roundtrip", getAccounts(fresh), 0, last.result,
                        r.result, getAccounts(r.storage), FALSE)
    /\ UNCHANGED <<storage, now, nextId, totp, popup, pure>>

Next ==
    \/ \E issuer \in Issuers : AddAccount(issuer)
    \/ \E id \in KnownIds, updates \in UpdateSamples : UpdateAccount(id, updates)
    \/ \E id \in KnownIds : DeleteAccount(id)
    \/ ExportData
    \/ \E data \in WellFormedPayloads \cup MalformedPayloads : ImportData(data)
    \/ \E fresh \in FreshStorages : ImportExported(fresh)

Spec == Init /\ [][Next]_vars

(***************************************************************************)
(* generateTOTP: the call runs to its await of hmacSha1, the digest        *)
(* settles, and the caller's await resumes.                                *)
(***************************************************************************)
SecretSamples ==
    {<<"J", "B", "S", "W", "Y", "3", "D", "P">>,
     <<"j", "b", " ", "s", "w">>,
     <<"7", "7", "7", "7", "7", "7", "7", "7">>,
     <<"M", "Y", "=", "=">>,
     <<"A", "1">>,
     <<"A">>,
     <<>>}

PeriodSamples == {-30, 0, 1, 30}

DigitsSamples == {0, 6, 7, 8}

TimestampSamples == {-1, 0, 29999, 59000}

\* a 20-byte digest whose truncation window holds the four bytes w
DigestOf(hi, offset, w) ==
    [i \in 1..20 |->
        IF i = 20 THEN 16 * hi + offset
        ELSE IF i - 1 \in offset..(offset + 3) THEN w[i - offset]
        ELSE 170]

DigestSamples ==
    {DigestOf(hi, offset, w) :
        hi \in {0, 15}, offset \in {0, 9, 15},
        w \in {<<0, 0, 0, 42>>, <<255, 255, 255, 255>>, <<128, 0, 0, 0>>,
               <<18, 52, 86, 120>>}}

GenerateTOTPCall(secret, period, digits, timestamp) ==
    /\ totp.pc = "idle"
    /\ LET key == base32Decode(secret)
           args == [secret |-> secret, period |-> period, digits |-> digits,
                    timestamp |-> timestamp]
       IN  totp' = IF key.ok
                   THEN [pc |-> "hmac", args |-> args, key |-> key.bytes,
                         counterBytes |->
                            numberToBytes(CounterOf(timestamp, period))]
                   ELSE [pc |-> "rejected", args |-> args, error |-> key.error]
    /\ UNCHANGED <<storage, now, nextId, last, popup, pure>>

HmacSha1Settles(digest) ==
    /\ totp.pc = "hmac"
    /\ totp' = IF hmacAccepts(totp.key)
               THEN [pc |-> "fulfilled", args |-> totp.args, key |-> totp.key,
                     counterBytes |-> totp.counterBytes, hmac |-> digest,
                     code |-> otpOf(digest, totp.args.digits)]
               ELSE [pc |-> "rejected", args |-> totp.args,
                     error |-> <<"DataError">>]
    /\ UNCHANGED <<storage, now, nextId, last, popup, pure>>

GenerateTOTPAwaited ==
    /\ totp.pc \in {"fulfilled", "rejected"}
    /\ totp' = TotpIdle
    /\ UNCHANGED <<storage, now, nextId, last, popup, pure>>

NextTotp ==
    \/ \E secret \in SecretSamples, period \in PeriodSamples,
          digits \in DigitsSamples, timestamp \in TimestampSamples :
            GenerateTOTPCall(secret, period, digits, timestamp)
    \/ \E digest \in DigestSamples : HmacSha1Settles(digest)
    \/ GenerateTOTPAwaited

SpecTotp == Init /\ [][NextTotp]_vars

(***************************************************************************)
(* Sequences of add and delete only.                                       *)
(***************************************************************************)
NextAddDelete ==
    \/ \E issuer \in Issuers : AddAccount(issuer)
    \/ \E id \in KnownIds : DeleteAccount(id)

SpecAddDelete == Init /\ [][NextAddDelete]_vars

(***************************************************************************)
(* Sequences of add, import and delete, each awaited before the next.      *)
(***************************************************************************)
NextAwaited ==
    \/ \E issuer \in Issuers : AddAccount(issuer)
    \/ \E data \in WellFormedPayloads \cup MalformedPayloads : ImportData(data)
    \/ \E id \in KnownIds : DeleteAccount(id)

SpecAwaited == Init /\ [][NextAwaited]_vars

(***************************************************************************)
(* The TOTP refresh loop.  totpUpdateInterval is 0 for null; setInterval   *)
(* hands out a new positive id each time; timers are the intervals not     *)
(* cleared.  lastLoop remembers which of the two functions ran last.       *)
(***************************************************************************)
MaxTimers == 2

\* mutant: the loop is started without looking at totpUpdateInterval
startTotpUpdates_unguarded(p) ==
    [p EXCEPT !.timerIds = p.timerIds + 1,
              !.timers = p.timers \cup {p.timerIds + 1},
              !.totpUpdateInterval = p.timerIds + 1,
              !.lastLoop = "start"]

startTotpUpdates(p) ==
    IF p.totpUpdateInterval # 0
    THEN [p EXCEPT !.lastLoop = "start"]
    ELSE [p EXCEPT !.timerIds = p.timerIds + 1,
                   !.timers = p.timers \cup {p.timerIds + 1},
                   !.totpUpdateInterval = p.timerIds + 1,
                   !.lastLoop = "start"]

stopTotpUpdates(p) ==
    IF p.totpUpdateInterval # 0
    THEN [p EXCEPT !.timers = p.timers \ {p.totpUpdateInterval},
                   !.totpUpdateInterval = 0,
                   !.lastLoop = "stop"]
    ELSE [p EXCEPT !.lastLoop = "stop"]

TabIds == {"password", "authenticator", "settings"}

\* click on a navigation tab
SwitchTab(tabId) ==
    /\ (tabId = "authenticator" /\ popup.totpUpdateInterval = 0)
          => popup.timerIds < MaxTimers
    /\ popup' = LET shown == [popup EXCEPT !.activeTab = tabId]
                IN  IF tabId = "authenticator" THEN startTotpUpdates(shown)
                    ELSE stopTotpUpdates(shown)
    /\ UNCHANGED <<registryVars, totp, pure>>

(***************************************************************************)
(* The QR scanner.  startQRScanner makes a new QRScanner each time         *)
(* (popup.scanners, popup.qrScanner its index, 0 for null).  A scanner's   *)
(* pc is the promise its start() awaits ("load", "camera", "play") or how  *)
(* start() ended ("returned", "threw"); stream is 0 for null; frame tells  *)
(* whether an animation frame is requested; stopped whether stop() has     *)
(* been called on it.  cameras are the streams whose tracks are live.      *)
(***************************************************************************)
MaxScanners == 2

NewScanner ==
    [pc |-> "load", scanning |-> FALSE, stream |-> 0, frame |-> FALSE,
     stopped |-> FALSE]

Scanners == DOMAIN popup.scanners

\* QRScanner.stop() on scanner s
QRScanner_stop(p, s) ==
    [p EXCEPT !.scanners[s] = [@ EXCEPT !.scanning = FALSE, !.frame = FALSE,
                                        !.stream = 0, !.stopped = TRUE],
              !.cameras = @ \ {p.scanners[s].stream}]

stopQRScanner(p) ==
    IF p.qrScanner # 0
    THEN [QRScanner_stop(p, p.qrScanner) EXCEPT !.qrScanner = 0]
    ELSE p

switchAddMethod(p, method) ==
    IF method # "qr-camera" /\ p.qrScanner # 0 THEN stopQRScanner(p) ELSE p

closeAddModal(p) ==
    switchAddMethod([stopQRScanner(p) EXCEPT !.modal = FALSE], "manual")

\* handleQRScanResult(data): the scanner state it changes
handleQRScanResult(p) == switchAddMethod(stopQRScanner(p), "manual")

\* QRScanner.scan() of scanner s on a frame in which a code is found or not
scan(p, s, found) ==
    IF ~p.scanners[s].scanning \/ ~p.jsQRLoaded
    THEN [p EXCEPT !.scanners[s].frame = FALSE]
    ELSE IF found
    THEN handleQRScanResult([p EXCEPT !.scanners[s].scanning = FALSE,
                                      !.scanners[s].frame = FALSE])
    ELSE [p EXCEPT !.scanners[s].frame = TRUE]

\* click on startCameraBtn: toggleQRScanner, and start() up to loadJsQR()
ToggleQRScanner ==
    /\ IF popup.qrScanner # 0 /\ popup.scanners[popup.qrScanner].scanning
       THEN popup' = stopQRScanner(popup)
       ELSE /\ Len(popup.scanners) < MaxScanners
            /\ popup' = [popup EXCEPT !.scanners = Append(@, NewScanner),
                                      !.qrScanner = Len(popup.scanners) + 1]
    /\ UNCHANGED <<registryVars, totp, pure>>

\* loadJsQR() settles; start() goes on to getUserMedia or throws
LoadJsQRSettles(s, loaded) ==
    /\ popup.scanners[s].pc = "load"
    /\ popup.jsQRLoaded => loaded
    /\ popup' = IF loaded
                THEN [popup EXCEPT !.jsQRLoaded = TRUE,
                                   !.scanners[s].pc = "camera"]
                ELSE [popup EXCEPT !.scanners[s].pc = "threw"]
    /\ UNCHANGED <<registryVars, totp, pure>>

\* getUserMedia settles: this.stream = the new stream, video.play() is
\* called; or the permission is refused
GetUserMediaSettles(s, granted) ==
    /\ popup.scanners[s].pc = "camera"
    /\ popup' = IF granted
                THEN [popup EXCEPT !.streamIds = @ + 1,
                                   !.cameras = @ \cup {popup.streamIds + 1},
                                   !.scanners[s].stream = popup.streamIds + 1,
                                   !.scanners[s].pc = "play"]
                ELSE [popup EXCEPT !.scanners[s].pc = "threw"]
    /\ UNCHANGED <<registryVars, totp, pure>>

\* video.play() settles: this.scanning = true; this.scan(); or it rejects
VideoPlaySettles(s, played, found) ==
    /\ popup.scanners[s].pc = "play"
    /\ popup' = IF played
                THEN scan([popup EXCEPT !.scanners[s].scanning = TRUE,
                                        !.scanners[s].pc = "returned"],
                          s, found)
                ELSE [popup EXCEPT !.scanners[s].pc = "threw"]
    /\ UNCHANGED <<registryVars, totp, pure>>

\* the requested animation frame comes: scan() again
AnimationFrame(s, found) ==
    /\ popup.scanners[s].frame
    /\ popup' = scan(popup, s, found)
    /\ UNCHANGED <<registryVars, totp, pure>>

\* click on a method tab of the add modal
SwitchAddMethod(method) ==
    /\ popup' = switchAddMethod(popup, method)
    /\ UNCHANGED <<registryVars, totp, pure>>

(***************************************************************************)
(* The popup's handlers.  Each runs until its next await and gives way; a  *)
(* user event starts a handler whether or not an earlier one has finished. *)
(* A handler's pc names the promise it awaits:                             *)
(*   "validate"  add: generateTOTP of the form's secret                    *)
(*   "file"      import: file.text()                                       *)
(*   "read"      the registry call's getAccounts (chrome.storage get)      *)
(*   "write"     the registry call's saveAccounts (chrome.storage set)     *)
(*   "reload"    accounts = await storage.getAccounts()                    *)
(* chrome.storage answers the requests in the order they were issued       *)
(* (popup.queue).                                                          *)
(***************************************************************************)
MaxClicks == 2

FormSamples == {"empty", "badSecret", "ok"}

\* a chosen file: not JSON, a malformed export, another installation's export
FileSamples ==
    {[t |-> "unparsable"],
     Payload([version |-> "1.0"]),
     Payload([version |-> "1.0",
              accounts |-> ArrayOf(<<ExportedAccount(101)>>)])}

Handler(kind, pc, id, data) ==
    [kind |-> kind, pc |-> pc, id |-> id, data |-> data,
     toWrite |-> <<>>, during |-> {}]

Handlers == DOMAIN popup.handlers

\* the handlers whose registry call has read the collection and not yet
\* written it back
BetweenReadAndWrite == {h \in Handlers : popup.handlers[h].pc = "write"}

Started(handler) ==
    [popup EXCEPT !.handlers = Append(popup.handlers, handler)]

Moved(h, handler) == [popup EXCEPT !.handlers[h] = handler]

\* the handler issues a chrome.storage request
Issued(p, h) == [p EXCEPT !.queue = Append(p.queue, h)]

\* the oldest request is answered
Answered(p) == [p EXCEPT !.queue = Tail(p.queue)]

Oldest(h) == popup.queue # <<>> /\ Head(popup.queue) = h

\* accounts.push({...account, createdAt: Date.now(), order: accounts.length})
pushAccount(accounts, account, time) ==
    Append(accounts,
           Spread(account, [createdAt |-> time, order |-> Len(accounts)]))

\* mutant: the write appends to the collection as it is when the write happens
addAccountWrite_rereads(st, pushed) ==
    saveAccounts(st, Append(getAccounts(st), pushed[Len(pushed)]))

\* await this.saveAccounts(accounts) of addAccount: the array that was read
\* and pushed to replaces whatever is stored
addAccountWrite(st, pushed) == saveAccounts(st, pushed)

OpenAddModal ==
    /\ ~popup.modal
    /\ popup' = [popup EXCEPT !.modal = TRUE]
    /\ UNCHANGED <<registryVars, totp, pure>>

CloseAddModal ==
    /\ popup.modal
    /\ popup' = closeAddModal(popup)
    /\ UNCHANGED <<registryVars, totp, pure>>

\* click on confirmAdd: addAccount() up to await generateTOTP(...); an
\* incomplete form ends the handler at once
ConfirmAddClick(form) ==
    /\ popup.modal
    /\ Len(popup.handlers) < MaxClicks
    /\ popup' = Started(Handler("add",
                                IF form = "empty" THEN "done" ELSE "validate",
                                0, [t |-> form]))
    /\ UNCHANGED <<registryVars, totp, pure>>

\* generateTOTP settles: a rejected secret ends the handler; otherwise
\* generateId() and storage.addAccount(newAccount) up to its getAccounts
AddValidated(h) ==
    /\ popup.handlers[h].pc = "validate"
    /\ IF popup.handlers[h].data.t = "badSecret"
       THEN /\ popup' = Moved(h, [popup.handlers[h] EXCEPT !.pc = "done"])
            /\ UNCHANGED nextId
       ELSE /\ nextId' = generateId(nextId)
            /\ popup' = Issued(Moved(h, [popup.handlers[h] EXCEPT
                                            !.pc = "read", !.id = nextId']),
                               h)
    /\ UNCHANGED <<storage, now, last, totp, pure>>

\* contextmenu on a rendered account, confirm() answered: deleteAccount(id)
\* up to its getAccounts; a cancelled confirm() starts nothing
DeleteConfirmed(id) ==
    /\ Len(popup.handlers) < MaxClicks
    /\ id \in IdsOf(popup.accounts)
    /\ popup' = Issued(Started(Handler("delete", "read", id, NoData)),
                       Len(popup.handlers) + 1)
    /\ UNCHANGED <<registryVars, totp, pure>>

\* change on the import file input: handleImport up to await file.text()
ImportFileChosen(file) ==
    /\ Len(popup.handlers) < MaxClicks
    /\ popup' = Started(Handler("import", "file", 0, file))
    /\ UNCHANGED <<registryVars, totp, pure>>

\* file.text() settles: JSON.parse throws, or importData(data) rejects the
\* format, or it runs up to its getAccounts
ImportFileRead(h) ==
    /\ popup.handlers[h].pc = "file"
    /\ LET data == popup.handlers[h].data
       IN  popup' =
             IF data.t = "unparsable" \/ InvalidFormat(data)
             THEN Moved(h, [popup.handlers[h] EXCEPT !.pc = "done"])
             ELSE Issued(Moved(h, [popup.handlers[h] EXCEPT !.pc = "read"]), h)
    /\ UNCHANGED <<registryVars, totp, pure>>

\* getAccounts of the registry call is answered; the call computes the array
\* to persist and issues saveAccounts (importData: only if something is new,
\* and the caller reloads the list; a failed import ends the handler)
RegistryRead(h) ==
    /\ Oldest(h)
    /\ popup.handlers[h].pc = "read"
    /\ LET hd == popup.handlers[h]
           existing == getAccounts(storage)
           r == importData(storage, hd.data)
           seen == [hd EXCEPT !.during = BetweenReadAndWrite]
           write(array) == Issued(Answered(Moved(h,
                               [seen EXCEPT !.pc = "write", !.toWrite = array])),
                               h)
       IN  CASE hd.kind = "add" ->
                  /\ now' = now + 1
                  /\ popup' = write(pushAccount(existing,
                                                NewAccount(hd.id, "GitHub"),
                                                now'))
             [] hd.kind = "delete" ->
                  /\ popup' = write(FilterOut(existing, hd.id))
                  /\ UNCHANGED now
             [] hd.kind = "import" ->
                  /\ popup' =
                       IF ~r.result.success
                       THEN Answered(Moved(h, [seen EXCEPT !.pc = "done"]))
                       ELSE IF r.result.imported = 0
                       THEN Issued(Answered(Moved(h,
                                [seen EXCEPT !.pc = "reload"])), h)
                       ELSE write(getAccounts(r.storage))
                  /\ UNCHANGED now
    /\ UNCHANGED <<storage, nextId, last, totp, pure>>

\* saveAccounts is answered: the array replaces the stored collection; the
\* handler goes on to reload its list
RegistryWrite(h) ==
    /\ Oldest(h)
    /\ popup.handlers[h].pc = "write"
    /\ storage' = IF popup.handlers[h].kind = "add"
                  THEN addAccountWrite(storage, popup.handlers[h].toWrite)
                  ELSE saveAccounts(storage, popup.handlers[h].toWrite)
    /\ popup' = Issued(Answered(
                    [Moved(h, [popup.handlers[h] EXCEPT !.pc = "reload"])
                        EXCEPT !.lastWriter = h]), h)
    /\ UNCHANGED <<now, nextId, last, totp, pure>>

\* mutant: the popup keeps the list it had
reloadAccounts_keepsList(p, st) == p

\* accounts = await storage.getAccounts()
reloadAccounts(p, st) == [p EXCEPT !.accounts = getAccounts(st)]

\* accounts = await storage.getAccounts(); renderAccounts(); and, for add,
\* closeAddModal()
Reloaded(h) ==
    /\ Oldest(h)
    /\ popup.handlers[h].pc = "reload"
    /\ popup' = LET reloaded ==
                        reloadAccounts(
                            Moved(h, [popup.handlers[h] EXCEPT !.pc = "done"]),
                            storage)
                IN  Answered(IF popup.handlers[h].kind = "add"
                             THEN closeAddModal(reloaded) ELSE reloaded)
    /\ UNCHANGED <<registryVars, totp, pure>>

NextPopup ==
    \/ OpenAddModal
    \/ CloseAddModal
    \/ \E form \in FormSamples : ConfirmAddClick(form)
    \/ \E h \in Handlers : AddValidated(h)
    \/ \E id \in KnownIds : DeleteConfirmed(id)
    \/ \E file \in FileSamples : ImportFileChosen(file)
    \/ \E h \in Handlers : ImportFileRead(h)
    \/ \E h \in Handlers : RegistryRead(h)
    \/ \E h \in Handlers : RegistryWrite(h)
    \/ \E h \in Handlers : Reloaded(h)

SpecPopup == Init /\ [][NextPopup]_vars

(***************************************************************************)
(* The popup's navigation, add modal and QR scanner.                       *)
(***************************************************************************)
NextUi ==
    \/ \E tabId \in TabIds : SwitchTab(tabId)
    \/ OpenAddModal
    \/ CloseAddModal
    \/ ToggleQRScanner
    \/ \E method \in {"manual", "qr-camera", "qr-image"} : SwitchAddMethod(method)
    \/ \E s \in Scanners, loaded \in BOOLEAN : LoadJsQRSettles(s, loaded)
    \/ \E s \in Scanners, granted \in BOOLEAN : GetUserMediaSettles(s, granted)
    \/ \E s \in Scanners, played \in BOOLEAN, found \in BOOLEAN :
            VideoPlaySettles(s, played, found)
    \/ \E s \in Scanners, found \in BOOLEAN : AnimationFrame(s, found)

SpecUi == Init /\ [][NextUi]_vars

(***************************************************************************)
(* The synchronous functions of the TOTP module, called by the popup with  *)
(* what the user typed or scanned: a call runs to its return or its throw  *)
(* (pure.result), and the caller goes on.                                  *)
(***************************************************************************)
MaxEncoded == 3

\* characters of a typed secret: alphabet symbols, a lowercase letter, white
\* space, padding, a digit outside the alphabet
EncodedChars == {"A", "Q", "7", "b", " ", "=", "1"}

\* six symbols already absorbed: the next one shifts the accumulator past
\* 32 bits
LongPrefixes ==
    {<<"7", "7", "7", "7", "7", "7">>, <<"J", "B", "S", "W", "Y", "3">>,
     <<"Q", "7", "A", "7", "Q", "7", "A", "7", "Q", "7", "A", "7", "Q">>}

ShortEncoded == UNION {[1..n -> EncodedChars] : n \in 0..MaxEncoded}

EncodedSamples ==
    ShortEncoded \cup {p \o s : p \in LongPrefixes, s \in ShortEncoded}

Base32DecodeCall(encoded) ==
    /\ pure = PureIdle
    /\ pure' = [fn |-> "base32Decode", arg |-> encoded,
                result |-> base32Decode(encoded)]
    /\ UNCHANGED <<registryVars, totp, popup>>

PureReturns ==
    /\ pure # PureIdle
    /\ pure' = PureIdle
    /\ UNCHANGED <<registryVars, totp, popup>>

MaxSeconds == 61

RemainingPeriods == {-30, 0, 1, 7, 30}

\* Date.now(): the first and the last millisecond of each second
DateNowSamples == {1000 * s + ms : s \in 0..MaxSeconds, ms \in {0, 999}}

GetRemainingSecondsCall(period, dateNow) ==
    /\ pure = PureIdle
    /\ pure' = [fn |-> "getRemainingSeconds",
                arg |-> [period |-> period, dateNow |-> dateNow],
                result |-> getRemainingSeconds(period, dateNow)]
    /\ UNCHANGED <<registryVars, totp, popup>>

MaxPath == 3

PathChars == {"a", ":", "%3A", "%"}

\* labels as authenticator apps write them
LabelSamples ==
    {<<"/", "A", "c", "m", "e", ":", "b", "o", "b">>,
     <<"/", "A", "c", "m", "e", ":", "b", "o", "b", ":", "2">>,
     <<"/", "A", "c", "m", "e", "%3A", "%20", "b", "o", "b">>}

PathnameSamples ==
    {<<>>} \cup LabelSamples \cup
    UNION {{<<"/">> \o p : p \in [1..n -> PathChars]} : n \in 0..MaxPath}

ParamValues ==
    [issuer |-> {<<>>, <<"A">>},
     secret |-> {<<"J", "B">>},
     digits |-> {<<"8">>, <<"a">>, <<"6", "x">>},
     period |-> {<<>>, <<"6", "0">>}]

\* the query: any of the names present, each with one of its values
SearchParamsSamples ==
    UNION {{f \in [names -> UNION {ParamValues[n] : n \in DOMAIN ParamValues}] :
                \A n \in names : f[n] \in ParamValues[n]} :
            names \in SUBSET DOMAIN ParamValues}

\* what new URL(uri) makes of the scanned text
UriSamples ==
    {[t |-> "invalid"]} \cup
    {[t |-> "url", protocol |-> "otpauth:", hostname |-> "totp",
      pathname |-> pathname, searchParams |-> params] :
        pathname \in PathnameSamples, params \in SearchParamsSamples} \cup
    {[t |-> "url", protocol |-> "https:", hostname |-> hostname,
      pathname |-> pathname, searchParams |-> [secret |-> <<"J", "B">>]] :
        hostname \in {"totp", "example.com"}, pathname \in LabelSamples}

\* handleQRScanResult: parseOtpAuthUri(data)
ParseOtpAuthUriCall(uri) ==
    /\ pure = PureIdle
    /\ pure' = [fn |-> "parseOtpAuthUri", arg |-> uri,
                result |-> parseOtpAuthUri(uri)]
    /\ UNCHANGED <<registryVars, totp, popup>>

\* step counters below 2^53, as hi * 2^26 + lo: around 2^31, 2^32, 2^40
\* and the largest
CounterHighs == {0, 1, 31, 32, 63, 64, 65, 255, 256, 16384, 134217727}

CounterLows == {0, 1, 255, 256, 65535, 54321987, 67108863}

\* generateTOTP: counterBytes = numberToBytes(counter)
NumberToBytesCall(counter) ==
    /\ pure = PureIdle
    /\ pure' = [fn |-> "numberToBytes", arg |-> counter,
                result |-> numberToBytes(counter)]
    /\ UNCHANGED <<registryVars, totp, popup>>

MaxCode == 8

\* codes as generateTOTP pads them, of every length up to MaxCode
CodeSamples == UNION {[1..n -> {"0", "9"}] : n \in 0..MaxCode}

\* updateAllOtpCodes: otpElement.textContent = formatOtp(otp)
FormatOtpCall(code) ==
    /\ pure = PureIdle
    /\ pure' = [fn |-> "formatOtp", arg |-> code, result |-> formatOtp(code)]
    /\ UNCHANGED <<registryVars, totp, popup>>

\* a call is made once the previous one has returned
NextModule ==
    \/ /\ pure = PureIdle
       /\ \E encoded \in EncodedSamples : Base32DecodeCall(encoded)
    \/ /\ pure = PureIdle
       /\ \E period \in RemainingPeriods, dateNow \in DateNowSamples :
               GetRemainingSecondsCall(period, dateNow)
    \/ /\ pure = PureIdle
       /\ \E uri \in UriSamples : ParseOtpAuthUriCall(uri)
    \/ /\ pure = PureIdle
       /\ \E code \in CodeSamples : FormatOtpCall(code)
    \/ /\ pure = PureIdle
       /\ \E hi \in CounterHighs, lo \in CounterLows :
               NumberToBytesCall(Wide(hi, lo))
    \/ PureReturns

SpecModule == Init /\ [][NextModule]_vars

(***************************************************************************)
(* Password generator: generatePassword and ensureCharacterTypes, with the *)
(* values crypto.getRandomValues delivers as inputs of the call.           *)
(***************************************************************************)
CHARSETS ==
    [uppercase |-> <<"A", "B", "C", "D", "E", "F", "G", "H", "I", "J", "K",
                     "L", "M", "N", "O", "P", "Q", "R", "S", "T", "U", "V",
                     "W", "X", "Y", "Z">>,
     lowercase |-> <<"a", "b", "c", "d", "e", "f", "g", "h", "i", "j", "k",
                     "l", "m", "n", "o", "p", "q", "r", "s", "t", "u", "v",
                     "w", "x", "y", "z">>,
     numbers   |-> <<"0", "1", "2", "3", "4", "5", "6", "7", "8", "9">>,
     symbols   |-> <<"!", "@", "#", "$", "%", "^", "&", "*", "(", ")", "_",
                     "+", "-", "=", "[", "]", "{", "}", "|", ";", ":", ",",
                     ".", "<", ">", "?">>]

CharacterTypes == <<"uppercase", "lowercase", "numbers", "symbols">>

\* charset[i] of a JavaScript string, i counted from 0
CharAt(charset, i) == charset[i + 1]

\* the charset generatePassword builds: the selected sets in the order
\* uppercase, lowercase, numbers, symbols; lowercase if nothing is selected
charsetOf(options) ==
    LET built ==
            (IF options.uppercase THEN CHARSETS.uppercase ELSE <<>>)
            \o (IF options.lowercase THEN CHARSETS.lowercase ELSE <<>>)
            \o (IF options.numbers THEN CHARSETS.numbers ELSE <<>>)
            \o (IF options.symbols THEN CHARSETS.symbols ELSE <<>>)
    IN  IF built = <<>> THEN CHARSETS.lowercase ELSE built

\* containsAny: some character of charset occurs in str
containsAny(str, charset) ==
    \E i \in 1..Len(str) : \E j \in 1..Len(charset) : str[i] = charset[j]

\* getRandomChar with the value its own getRandomValues call delivered
getRandomChar(charset, randomValue) ==
    CharAt(charset, randomValue % Len(charset))

\* the types ensureCharacterTypes replaces a character for, in its order:
\* those selected and absent from the password it was handed
MissingTypes(password, options) ==
    SelectSeq(CharacterTypes,
              LAMBDA type : options[type]
                            /\ ~containsAny(password, CHARSETS[type]))

\* ensureCharacterTypes: the k-th missing type overwrites the character at
\* randomPos[k - 1] % password.length; every test is made on the password as
\* it was handed in, every write goes to chars
RECURSIVE Replace(_, _, _, _, _)
Replace(chars, missing, k, randomPos, randomChars) ==
    IF k > Len(missing) THEN chars
    ELSE LET pos == randomPos[k] % Len(chars)
             char == getRandomChar(CHARSETS[missing[k]], randomChars[k])
         IN  Replace([chars EXCEPT ![pos + 1] = char], missing, k + 1,
                     randomPos, randomChars)

ensureCharacterTypes(password, options, randomPos, randomChars) ==
    Replace(password, MissingTypes(password, options), 1, randomPos,
            randomChars)

\* generatePassword: one character of the charset per random value, then
\* ensureCharacterTypes
generatePassword(options, randomValues, randomPos, randomChars) ==
    LET charset == charsetOf(options)
        password == [i \in 1..options.length |->
                        CharAt(charset, randomValues[i] % Len(charset))]
    IN  ensureCharacterTypes(password, options, randomPos, randomChars)

MaxPassword == 4

\* the options the popup passes: a length from 4 on and the four checkboxes
OptionsSamples ==
    [length : 4..MaxPassword, uppercase : BOOLEAN, lowercase : BOOLEAN,
     numbers : BOOLEAN, symbols : BOOLEAN]

\* values of the Uint32Array that select the first uppercase letter, the
\* first lowercase letter, the first digit and the first symbol when every
\* type is selected
RandomValueSamples == {0, 26, 52, 62}

\* values of randomPos
RandomPosSamples == {0, 1}

\* values getRandomChar draws
RandomCharSamples == {7}

GeneratePasswordCall(options, randomValues, randomPos, randomChars) ==
    /\ pure = PureIdle
    /\ pure' = [fn |-> "generatePassword",
                arg |-> [options |-> options, randomValues |-> randomValues,
                         randomPos |-> randomPos,
                         randomChars |-> randomChars],
                result |-> generatePassword(options, randomValues, randomPos,
                                            randomChars)]
    /\ UNCHANGED <<registryVars, totp, popup>>

NextPassword ==
    \/ /\ pure = PureIdle
       /\ \E options \in OptionsSamples :
            \E randomValues \in [1..options.length -> RandomValueSamples],
               randomPos \in [1..4 -> RandomPosSamples],
               randomChars \in [1..4 -> RandomCharSamples] :
                 GeneratePasswordCall(options, randomValues, randomPos,
                                      randomChars)
    \/ PureReturns

SpecPassword == Init /\ [][NextPassword]_vars

(***************************************************************************)
(* The password options of the popup: the four checkboxes and the length   *)
(* slider.  The popup opens on whatever options an earlier session saved.  *)
(***************************************************************************)
\* options an earlier session can have left in storage
StoredOptions ==
    [length : {12}, uppercase : BOOLEAN, lowercase : BOOLEAN,
     numbers : BOOLEAN, symbols : BOOLEAN]

\* values of the length slider
SliderValues == {4, 12, 128}

InitOptions ==
    /\ storage \in FreshStorages
                   \cup {savePasswordOptions(st, options) :
                            st \in FreshStorages, options \in StoredOptions}
    /\ now = 0
    /\ nextId = 0
    /\ last = Call("none", <<>>, 0, NoData, NoResult, <<>>, FALSE)
    /\ totp = TotpIdle
    /\ popup = [PopupLoaded EXCEPT
                   !.currentOptions = getPasswordOptions(storage),
                   !.checked = applyOptionsToUI(getPasswordOptions(storage))]
    /\ pure = PureIdle

anySelected(options) ==
    options.uppercase \/ options.lowercase \/ options.numbers
        \/ options.symbols

\* mutant: the type is not selected again when nothing is left
onCheckboxChange_keepsNone(options, type, checked) ==
    [options EXCEPT ![type] = checked]

\* the change listener of a checkbox: currentOptions[type] = checked, and
\* back to true if no type is selected then
onCheckboxChange(options, type, checked) ==
    LET changed == [options EXCEPT ![type] = checked]
    IN  IF ~anySelected(changed) THEN [changed EXCEPT ![type] = TRUE]
        ELSE changed

\* the user toggles the checkbox of a type; the listener runs, the box is
\* checked again if the type was forced back, and saveOptions() issues the
\* write of currentOptions
CheckboxChange(type) ==
    LET checked == ~popup.checked[type]
        options == onCheckboxChange(popup.currentOptions, type, checked)
    IN  /\ popup' = [popup EXCEPT
                        !.currentOptions = options,
                        !.checked[type] = options[type],
                        !.lastChange = [type |-> type, checked |-> checked]]
        /\ storage' = savePasswordOptions(storage, options)
        /\ UNCHANGED <<now, nextId, last, totp, pure>>

\* the user moves the length slider
LengthInput(value) ==
    LET options == [popup.currentOptions EXCEPT !.length = value]
    IN  /\ popup' = [popup EXCEPT !.currentOptions = options]
        /\ storage' = savePasswordOptions(storage, options)
        /\ UNCHANGED <<now, nextId, last, totp, pure>>

NextOptions ==
    \/ \E type \in CheckboxTypes : CheckboxChange(type)
    \/ \E value \in SliderValues : LengthInput(value)

SpecOptions == InitOptions /\ [][NextOptions]_vars

(***************************************************************************)
(* updateAllOtpCodes on one account row.  now is Date.now() in             *)
(* milliseconds.  refresh.pc is "awaiting" while generateTOTP is awaited   *)
(* and "shown" once the row shows a code and a remaining time (or          *)
(* "Error"); timestamp is the Date.now() generateTOTP read, readAt the one *)
(* getRemainingSeconds read.                                               *)
(***************************************************************************)
MaxElapsed == 3

\* Date.now() when the popup opens: one second before a multiple of 30 s
ClockStart == 29000

\* the clock moves on by half a second
ClockStep == 500

\* data-secret of a row: a Base32 secret, and one base32Decode refuses
RowSecrets == {<<"J", "B", "S", "W", "Y", "3", "D", "P">>, <<"A", "1">>}

\* parseInt(dataset.period, 10) || 30 of a row
RowPeriods == {1, 2, 30}

InitRefresh ==
    /\ storage \in FreshStorages
    /\ now = ClockStart
    /\ nextId = 0
    /\ last = Call("none", <<>>, 0, NoData, NoResult, <<>>, FALSE)
    /\ totp = TotpIdle
    /\ popup = PopupLoaded
    /\ pure = PureIdle

Tick ==
    /\ now + ClockStep <= ClockStart + 1000 * MaxElapsed
    /\ now' = now + ClockStep
    /\ UNCHANGED <<storage, nextId, last, totp, popup, pure>>

\* the loop body up to its await: generateTOTP(secret, {digits, period})
\* takes timestamp = Date.now(), decodes the secret, encodes the counter and
\* awaits hmacSha1
RefreshRowCall(secret, period) ==
    /\ totp.pc = "idle"
    /\ popup.refresh.pc \in {"idle", "shown"}
    /\ LET key == base32Decode(secret)
           args == [secret |-> secret, period |-> period, digits |-> 6,
                    timestamp |-> now]
       IN  totp' = IF key.ok
                   THEN [pc |-> "hmac", args |-> args, key |-> key.bytes,
                         counterBytes |->
                            numberToBytes(CounterOf(now, period))]
                   ELSE [pc |-> "rejected", args |-> args, error |-> key.error]
    /\ popup' = [popup EXCEPT !.refresh = [pc |-> "awaiting"]]
    /\ UNCHANGED <<registryVars, pure>>

\* the await is over: the row shows formatOtp(otp) and the remaining
\* seconds, for which getRemainingSeconds(period) reads Date.now() itself;
\* or the row shows "Error" if generateTOTP threw
RefreshRowResumes ==
    /\ popup.refresh.pc = "awaiting"
    /\ totp.pc \in {"fulfilled", "rejected"}
    /\ popup' =
          [popup EXCEPT !.refresh =
              IF totp.pc = "fulfilled"
              THEN [pc |-> "shown", error |-> FALSE,
                    textContent |-> formatOtp(totp.code),
                    period |-> totp.args.period,
                    timestamp |-> totp.args.timestamp,
                    readAt |-> now,
                    remaining |->
                        getRemainingSeconds(totp.args.period, now)]
              ELSE [pc |-> "shown", error |-> TRUE]]
    /\ totp' = TotpIdle
    /\ UNCHANGED <<registryVars, pure>>

\* digests for the rows: the first of the samples for each offset
RowDigests == {DigestOf(0, offset, <<18, 52, 86, 120>>) : offset \in {0, 15}}

NextRefresh ==
    \/ Tick
    \/ \E secret \in RowSecrets, period \in RowPeriods :
            RefreshRowCall(secret, period)
    \/ \E digest \in RowDigests : HmacSha1Settles(digest)
    \/ RefreshRowResumes

SpecRefresh == InitRefresh /\ [][NextRefresh]_vars

(***************************************************************************)
(* Properties.                                                             *)
(***************************************************************************)
\* the value a string of decimal digits denotes; -1 if it is no such string
RECURSIVE DecimalValue(_)
DecimalValue(str) ==
    IF Len(str) = 0 THEN 0
    ELSE LET c == str[Len(str)]
             rest == DecimalValue(SubSeq(str, 1, Len(str) - 1))
         IN  IF rest = -1 \/ ~(\E d \in 1..10 : DigitChars[d] = c)
             THEN -1
             ELSE 10 * rest + (CHOOSE d \in 1..10 : DigitChars[d] = c) - 1

\* a Base32 secret: alphabet symbols only once normalised, and enough of
\* them (two) to carry one key byte
ValidSecret(secret) ==
    LET norm == Normalize(secret)
    IN  /\ Len(norm) >= 2
        /\ \A i \in 1..Len(norm) :
              \E j \in 1..Len(BASE32_CHARS) : BASE32_CHARS[j] = norm[i]

TotpSettled == totp.pc \in {"fulfilled", "rejected"}

\* C1: for a valid Base32 secret, a positive period, any reference time and
\* digits in {6, 7, 8}, generateTOTP returns a string of exactly `digits`
\* decimal characters whose value is binary mod 10^digits (so it is that
\* number left-padded with '0').
C1_CodeHasDigitsCharacters ==
    (/\ TotpSettled
     /\ ValidSecret(totp.args.secret)
     /\ totp.args.period > 0
     /\ totp.args.digits \in {6, 7, 8})
    => /\ totp.pc = "fulfilled"
       /\ Len(totp.code) = totp.args.digits
       /\ DecimalValue(totp.code) = binaryOf(totp.hmac) % Pow10(totp.args.digits)

\* a six-digit code that needed padding: binary = 42 gives "000042"
C1_Witness ==
    /\ totp.pc = "fulfilled"
    /\ ValidSecret(totp.args.secret)
    /\ totp.args.period > 0
    /\ totp.args.digits = 6
    /\ totp.code = <<"0", "0", "0", "0", "4", "2">>

\* C2: generateTOTP called with a non-positive digits or period never returns
\* a code string; with a valid secret it is rejected with InvalidParameter.
C2_NonPositiveRejected ==
    (/\ TotpSettled
     /\ (totp.args.digits <= 0 \/ totp.args.period <= 0))
    => /\ totp.pc # "fulfilled"
       /\ ValidSecret(totp.args.secret) => totp.error = <<"InvalidParameter">>

\* C3: no two records of the persisted collection have the same identifier.
C3_IdentifiersUnique ==
    \A i, j \in 1..Len(Accounts) :
        i # j => Accounts[i].id # Accounts[j].id

\* C4: after adds and deletes only, a record inserted earlier (it stands
\* earlier in the collection) has a strictly smaller order value.
C4_OrderReflectsInsertion ==
    \A i, j \in 1..Len(Accounts) :
        i < j => Accounts[i].order < Accounts[j].order

\* C5: importing exportData(R) into an empty registry persists a collection
\* identical to R: the same records with the same fields in the same sequence.
C5_RoundTrip ==
    last.op = "roundtrip"
    => /\ last.pre = <<>>
       /\ last.result.success
       /\ last.post = Accounts
       /\ last.post = last.data.f.accounts.items

C5_Witness ==
    /\ last.op = "roundtrip"
    /\ Len(Accounts) >= 2
    /\ last.post = Accounts

\* C6: importing the same payload a second time, nothing else in between,
\* reports imported = 0 and skipped = the payload's accounts length and leaves
\* the persisted collection as the first import left it.
C6_ImportIdempotent ==
    (last.op = "import" /\ last.repeat)
    => /\ last.result.success
       /\ last.result.imported = 0
       /\ last.result.skipped = Len(last.data.f.accounts.items)
       /\ last.post = last.pre
       /\ Accounts = last.pre

C6_Witness ==
    /\ last.op = "import"
    /\ last.repeat
    /\ Len(last.data.f.accounts.items) = 2
    /\ \E i \in 1..Len(Accounts) : Accounts[i].id \in ForeignIds

\* C7: a successful import leaves every pre-existing record unchanged and in
\* place, appends after them exactly the payload records whose identifier was
\* not in the pre-import collection, in payload order, and returns
\* imported = number appended, skipped = payload length - imported.
C7_ImportAppendsNew ==
    (last.op = "import" /\ last.result.success)
    => LET items == last.data.f.accounts.items
           fresh == SelectSeq(items, LAMBDA acc : acc.id \notin IdsOf(last.pre))
       IN  /\ Accounts = last.pre \o fresh
           /\ last.result.imported = Len(Accounts) - Len(last.pre)
           /\ last.result.skipped = Len(items) - last.result.imported

C7_Witness ==
    /\ last.op = "import"
    /\ last.result.success
    /\ last.result.imported = 1
    /\ last.result.skipped = 1
    /\ Len(last.pre) >= 1

\* the payloads C8 is about: null, version or accounts missing or falsy,
\* accounts not an array
Malformed(data) ==
    \/ data.t = "null"
    \/ "version" \notin DOMAIN data.f
    \/ data.f.version = ""
    \/ "accounts" \notin DOMAIN data.f
    \/ data.f.accounts.t # "array"

\* C8: import of a payload without version or accounts, or otherwise
\* malformed, returns {success: false, error} and leaves the persisted
\* collection unchanged; so does every import that fails.
C8_MalformedImportFails ==
    /\ (last.op = "import" /\ Malformed(last.data))
       => last.result.success = FALSE
    /\ (last.op = "import" /\ ~last.result.success)
       => /\ "error" \in DOMAIN last.result
          /\ Accounts = last.pre

C8_Witness ==
    /\ last.op = "import"
    /\ last.data.t = "object"
    /\ "version" \notin DOMAIN last.data.f
    /\ "accounts" \in DOMAIN last.data.f
    /\ ~last.result.success
    /\ Len(Accounts) >= 1

\* C9: update and delete with an identifier that is not in the collection
\* leave the persisted collection unchanged.
C9_UnknownIdIsNoOp ==
    (last.op \in {"update", "delete"} /\ last.id \notin IdsOf(last.pre))
    => Accounts = last.pre

C9_Witness ==
    /\ last.op = "update"
    /\ last.id \notin IdsOf(last.pre)
    /\ Len(last.pre) >= 1
    /\ Accounts = last.pre

\* C10: whatever partialFields contains, update leaves the sequence of
\* identifiers of the collection as it was.
C10_IdentifierImmutable ==
    last.op = "update" => IdSeq(Accounts) = IdSeq(last.pre)

\* b's registry call read the collection while a's was between its read and
\* its write, and both handlers are adds that ran to their end
RacedAdds(a, b) ==
    /\ a # b
    /\ popup.handlers[a].kind = "add" /\ popup.handlers[b].kind = "add"
    /\ popup.handlers[a].pc = "done" /\ popup.handlers[b].pc = "done"
    /\ a \in popup.handlers[b].during

\* C11: when two adds have both read the collection before either wrote it
\* and both have completed, the persisted collection is the array of the add
\* that wrote last: it holds that add's record and not the other's.
C11_LastWriterWins ==
    \A a \in Handlers, b \in Handlers :
        (RacedAdds(a, b) /\ popup.lastWriter \in {a, b}) =>
            LET w == popup.lastWriter
                o == IF w = a THEN b ELSE a
            IN  /\ Accounts = popup.handlers[w].toWrite
                /\ popup.handlers[w].id \in IdsOf(Accounts)
                /\ popup.handlers[o].id \notin IdsOf(Accounts)

\* two raced adds on the empty registry have completed and one record is left
C11_Witness ==
    \E a \in Handlers, b \in Handlers :
        /\ RacedAdds(a, b)
        /\ popup.lastWriter = b
        /\ IdSeq(Accounts) = <<popup.handlers[b].id>>

\* C12: no handler's registry call reads the collection while another
\* handler's call is between its read and its write.
C12_OneMutationAtATime ==
    \A h \in Handlers : popup.handlers[h].during = {}

Base32Alphabet == {BASE32_CHARS[i] : i \in 1..Len(BASE32_CHARS)}

Decoded == pure.fn = "base32Decode"

\* the characters of a normalised input that are outside A-Z and 2-7
Offending(norm) == {norm[i] : i \in 1..Len(norm)} \ Base32Alphabet

\* C13: if the input, with white space removed, lowercase letters capitalised
\* and trailing '=' stripped, has a character outside A-Z and 2-7, the call
\* fails with the error naming such a character (the first one); it returns
\* bytes only when there is none.
C13_InvalidCharacterRejected ==
    Decoded =>
        LET norm == Normalize(pure.arg)
            bad == Offending(norm)
        IN  /\ bad # {} =>
                  /\ ~pure.result.ok
                  /\ pure.result.error[1] = "Invalid Base32 character: "
                  /\ pure.result.error[2] \in bad
                  /\ \E i \in 1..Len(norm) :
                        /\ norm[i] = pure.result.error[2]
                        /\ \A j \in 1..(i - 1) : norm[j] \in Base32Alphabet
            /\ pure.result.ok => bad = {}

\* an input whose only offending character is a '=' before the end is
\* rejected with that character named
C13_Witness ==
    /\ Decoded
    /\ Offending(Normalize(pure.arg)) = {"="}
    /\ ~pure.result.ok
    /\ pure.result.error[2] = "="

\* bit j (from 0) of the symbols' 5-bit values written most significant
\* bit first, one symbol after the other
BitAt(symbols, j) ==
    (indexOf(symbols[(j \div 5) + 1]) \div Pow2(4 - (j % 5))) % 2

\* the value of bits 8k..8k+7
ByteAt(symbols, k) ==
    BitAt(symbols, 8 * k) * 128 + BitAt(symbols, 8 * k + 1) * 64
      + BitAt(symbols, 8 * k + 2) * 32 + BitAt(symbols, 8 * k + 3) * 16
      + BitAt(symbols, 8 * k + 4) * 8 + BitAt(symbols, 8 * k + 5) * 4
      + BitAt(symbols, 8 * k + 6) * 2 + BitAt(symbols, 8 * k + 7)

OnlySymbols(str) == \A i \in 1..Len(str) : str[i] \in Base32Alphabet

\* C14: n alphabet symbols decode to floor(n*5/8) bytes, byte k being bits
\* 8k..8k+7 of the concatenated 5-bit values; the empty input gives no byte.
C14_DecodesBitConcatenation ==
    (Decoded /\ OnlySymbols(pure.arg)) =>
        /\ pure.result.ok
        /\ Len(pure.result.bytes) = (Len(pure.arg) * 5) \div 8
        /\ \A k \in 0..(Len(pure.result.bytes) - 1) :
              pure.result.bytes[k + 1] = ByteAt(pure.arg, k)

\* nine symbols (45 bits, 5 bytes and 5 leftover bits) have been decoded, the
\* last byte holding bits that entered after the accumulator had wrapped
C14_Witness ==
    /\ Decoded
    /\ OnlySymbols(pure.arg)
    /\ Len(pure.arg) = 9
    /\ Len(pure.result.bytes) = 5
    /\ pure.result.bytes[5] # 0

\* every lowercase letter replaced by its capital
Capitalised(str) ==
    [i \in DOMAIN str |->
        CASE str[i] = "b" -> "B"
          [] str[i] = "j" -> "J"
          [] str[i] = "s" -> "S"
          [] str[i] = "w" -> "W"
          [] OTHER -> str[i]]

\* every white-space character dropped
Unspaced(str) == SelectSeq(str, LAMBDA c : c \notin {" ", "\t", "\n"})

\* a Base32 string as users type it: symbols in either case, white space
\* anywhere, '=' only at the end
ValidBase32(str) == OnlySymbols(RemovePadding(Capitalised(Unspaced(str))))

\* C15: for a valid Base32 string s, decode(s) = decode(uppercase(s)) and
\* decode(s) = decode(s without white space).
C15_CaseAndWhitespaceInsensitive ==
    (Decoded /\ ValidBase32(pure.arg)) =>
        /\ pure.result.ok
        /\ pure.result = base32Decode(Capitalised(pure.arg))
        /\ pure.result = base32Decode(Unspaced(pure.arg))

\* a string with a lowercase letter and a space has been decoded to a byte
C15_Witness ==
    /\ Decoded
    /\ ValidBase32(pure.arg)
    /\ Capitalised(pure.arg) # pure.arg
    /\ Unspaced(pure.arg) # pure.arg
    /\ Len(pure.result.bytes) >= 1

UriParsed == pure.fn = "parseOtpAuthUri"

\* the call returned a record
UriReturned == UriParsed /\ pure.result.ok

\* the pathname without its leading separator, percent-decoded
DecodedPath == decodeURIComponent(slice1(pure.arg.pathname)).str

HasColon(path) == \E i \in 1..Len(path) : path[i] = ":"

FirstColon(path) ==
    CHOOSE i \in 1..Len(path) :
        path[i] = ":" /\ \A j \in 1..(i - 1) : path[j] # ":"

\* the issuer the path gives: the text before the first colon, or nothing
PathIssuer(path) ==
    IF HasColon(path) THEN SubSeq(path, 1, FirstColon(path) - 1) ELSE <<>>

\* the account label: all of the text after the first colon, or the path
PathAccount(path) ==
    IF HasColon(path) THEN SubSeq(path, FirstColon(path) + 1, Len(path))
    ELSE path

Placeholder(str) == IF str = <<>> THEN Str_Unknown ELSE str

\* C16: the decoded path is split at its first colon: the account is all of
\* the text after it (the whole path if there is none) and, unless the query
\* names an issuer, the issuer is the text before it (empty if there is none).
C16_SplitAtFirstColon ==
    UriReturned =>
        /\ pure.result.value.account = Placeholder(PathAccount(DecodedPath))
        /\ ~has(pure.arg.searchParams, "issuer") =>
              pure.result.value.issuer = Placeholder(PathIssuer(DecodedPath))

\* an optional sign and one or more decimal digits, nothing else
DecimalInteger(str) ==
    LET body == IF str # <<>> /\ Head(str) \in {"-", "+"} THEN Tail(str)
                ELSE str
    IN  body # <<>> /\ \A i \in 1..Len(body) : DigitOf(body[i]) # -1

\* C17: a digits or period value that is not a base-10 integer makes the
\* call fail, and a returned record's digits and period are integers.
C17_NonIntegerRejected ==
    UriParsed =>
        /\ \A name \in {"digits", "period"} :
              (/\ pure.arg.t = "url"
               /\ has(pure.arg.searchParams, name)
               /\ ~DecimalInteger(pure.arg.searchParams[name]))
                 => ~pure.result.ok
        /\ pure.result.ok =>
              pure.result.value.digits.fin /\ pure.result.value.period.fin

\* C18: a URI whose scheme is not otpauth fails, and every failure is the
\* same generic error whatever its cause.
C18_FailuresAreGeneric ==
    UriParsed =>
        /\ (pure.arg.t = "url" /\ pure.arg.protocol # "otpauth:")
              => ~pure.result.ok
        /\ ~pure.result.ok => pure.result.error = "Invalid OTP Auth URI"

\* an https URI has been refused with the generic error
C18_Witness ==
    /\ UriParsed
    /\ pure.arg.t = "url"
    /\ pure.arg.protocol = "https:"
    /\ pure.result = Thrown("Invalid OTP Auth URI")

\* the issuer before the placeholder: the query's if it names one
ResolvedIssuer ==
    IF has(pure.arg.searchParams, "issuer") THEN pure.arg.searchParams.issuer
    ELSE PathIssuer(DecodedPath)

\* C19: a returned record's issuer and account are not empty; an issuer or
\* account that resolves to the empty string is "Unknown".
C19_NeverEmpty ==
    UriReturned =>
        /\ pure.result.value.issuer # <<>>
        /\ pure.result.value.account # <<>>
        /\ ResolvedIssuer = <<>> => pure.result.value.issuer = Str_Unknown
        /\ PathAccount(DecodedPath) = <<>> =>
              pure.result.value.account = Str_Unknown

\* the query overrides the path's issuer with the empty string and the path
\* ends at its colon: both fields are the placeholder
C19_Witness ==
    /\ UriReturned
    /\ has(pure.arg.searchParams, "issuer")
    /\ pure.arg.searchParams.issuer = <<>>
    /\ PathIssuer(DecodedPath) # <<>>
    /\ PathAccount(DecodedPath) = <<>>
    /\ pure.result.value.issuer = Str_Unknown
    /\ pure.result.value.account = Str_Unknown

RemainingAsked == pure.fn = "getRemainingSeconds"

\* C20: for a positive period the result is in 1..period, and it is period
\* exactly when the clock's seconds are a multiple of period.
C20_RemainingInRange ==
    (RemainingAsked /\ pure.arg.period > 0) =>
        /\ pure.result.fin
        /\ pure.result.n \in 1..pure.arg.period
        /\ pure.result.n = pure.arg.period
              <=> ((pure.arg.dateNow \div 1000) % pure.arg.period = 0)

\* at the last millisecond of second 60 a whole step of 30 seconds remains
C20_Witness ==
    /\ RemainingAsked
    /\ pure.arg.period = 30
    /\ pure.arg.dateNow = 60999
    /\ pure.result = Finite(30)

\* C21: a code of n characters is returned as its first floor(n/2)
\* characters, one space, and its remaining characters.
C21_SplitsInTheMiddle ==
    pure.fn = "formatOtp" =>
        LET n == Len(pure.arg)
            half == n \div 2
        IN  /\ Len(pure.result) = n + 1
            /\ \A i \in 1..half : pure.result[i] = pure.arg[i]
            /\ pure.result[half + 1] = " "
            /\ \A i \in (half + 1)..n : pure.result[i + 1] = pure.arg[i]

\* a code of seven characters has been formatted as three and four
C21_Witness ==
    /\ pure.fn = "formatOtp"
    /\ Len(pure.arg) = 7
    /\ pure.result[4] = " "
    /\ Len(pure.result) = 8

\* C22: one interval timer is live if startTotpUpdates was the last of the
\* two to be called, none if stopTotpUpdates was.
C22_OneTimerWhileStarted ==
    Cardinality(popup.timers) = IF popup.lastLoop = "start" THEN 1 ELSE 0

\* the loop has been stopped and started again, then started once more: the
\* second timer is the only one
C22_Witness ==
    /\ popup.lastLoop = "start"
    /\ popup.timerIds = 2
    /\ popup.timers = {2}

\* C29: a scanner on which stop() has been called and whose start() has run
\* to its end holds no camera stream and is not scanning.
C29_StopReleasesCamera ==
    \A s \in Scanners :
        (popup.scanners[s].stopped
            /\ popup.scanners[s].pc \in {"returned", "threw"}) =>
                /\ popup.scanners[s].stream = 0
                /\ ~popup.scanners[s].scanning

\* the records of a collection whose identifier is not id, in their order
RECURSIVE Without(_, _)
Without(accounts, id) ==
    IF accounts = <<>> THEN <<>>
    ELSE (IF Head(accounts).id = id THEN <<>> ELSE <<Head(accounts)>>)
            \o Without(Tail(accounts), id)

\* the records of a payload whose identifier is not among ids, in their order
RECURSIVE NotAmong(_, _)
NotAmong(items, ids) ==
    IF items = <<>> THEN <<>>
    ELSE (IF Head(items).id \in ids THEN <<>> ELSE <<Head(items)>>)
            \o NotAmong(Tail(items), ids)

\* C23: add appends one record at the end, with order equal to the length
\* before the call; the records stored before keep their content and place.
C23_AddAppendsOne ==
    last.op = "add" =>
        LET n == Len(last.pre)
        IN  /\ Accounts = last.post
            /\ Len(last.post) = n + 1
            /\ last.post[n + 1].id = last.id
            /\ last.post[n + 1].order = n
            /\ \A i \in 1..n : last.post[i] = last.pre[i]

\* a record has been added behind an existing one
C23_Witness ==
    /\ last.op = "add"
    /\ Len(last.pre) = 1
    /\ Len(Accounts) = 2
    /\ Accounts[2].order = 1

\* C24: update on a present identifier sets the fields named in the updates
\* on the first record with that identifier, keeps its other fields and its
\* place, and leaves the other records as they were.
C24_UpdateMergesFirstMatch ==
    (last.op = "update" /\ last.id \in IdsOf(last.pre)) =>
        LET first == CHOOSE i \in 1..Len(last.pre) :
                        /\ last.pre[i].id = last.id
                        /\ \A j \in 1..(i - 1) : last.pre[j].id # last.id
            updates == last.data.f
        IN  /\ Accounts = last.post
            /\ Len(last.post) = Len(last.pre)
            /\ DOMAIN last.post[first]
                  = (DOMAIN last.pre[first]) \cup (DOMAIN updates)
            /\ \A k \in DOMAIN last.post[first] :
                  last.post[first][k] = IF k \in DOMAIN updates
                                        THEN updates[k]
                                        ELSE last.pre[first][k]
            /\ \A i \in (1..Len(last.pre)) \ {first} :
                  last.post[i] = last.pre[i]

\* of two records with the same identifier the first has got the new issuer
C24_Witness ==
    /\ last.op = "update"
    /\ Len(last.pre) = 2
    /\ last.pre[1].id = last.id /\ last.pre[2].id = last.id
    /\ last.pre[1].issuer = "Imported"
    /\ Accounts[1].issuer = "GitHub"
    /\ Accounts[2].issuer = "Imported"

\* C25: after delete(id) no record has the identifier, and the other
\* records are all there, unchanged, in the order they had.
C25_DeleteRemovesOnlyId ==
    last.op = "delete" =>
        /\ Accounts = last.post
        /\ last.id \notin IdsOf(last.post)
        /\ last.post = Without(last.pre, last.id)

\* one of two records has been deleted and the other is left
C25_Witness ==
    /\ last.op = "delete"
    /\ Len(last.pre) = 2
    /\ last.id \in IdsOf(last.pre)
    /\ Len(Accounts) = 1

\* what a collection becomes by an awaited call: add appends the record
\* with the new identifier, a successful import appends the payload's
\* records that are new, delete removes the records with the identifier
NothingLost(before, after, call) ==
    CASE call.op = "add" ->
            /\ Len(after) = Len(before) + 1
            /\ SubSeq(after, 1, Len(before)) = before
            /\ after[Len(after)].id = call.id
      [] call.op = "import" ->
            IF call.result.success
            THEN after = before
                    \o NotAmong(call.data.f.accounts.items, IdsOf(before))
            ELSE after = before
      [] call.op = "delete" -> after = Without(before, call.id)
      [] OTHER -> after = before

\* C26: when each add, import and delete is awaited before the next is
\* issued, every call leaves exactly the records stored before it, in their
\* order, plus the ones it adds or imports as new at the end, minus the ones
\* it deletes: no update is lost.
C26_NoUpdateLost ==
    [][NothingLost(getAccounts(storage), getAccounts(storage'), last')]_vars

\* after an add, an import and a delete of the added record, the imported
\* record is what is stored
C26_Witness ==
    /\ last.op = "delete"
    /\ last.id = 1
    /\ IdSeq(last.pre) = <<1, 101>>
    /\ IdSeq(Accounts) = <<101>>

\* C27: for a 20-byte digest the offset is in 0..15, the four bytes read are
\* at indices 0..19, and binary is in 0..2^31 - 1.
C27_TruncationInBounds ==
    (totp.pc = "fulfilled" /\ Len(totp.hmac) = 20) =>
        LET offset == offsetOf(totp.hmac)
        IN  /\ offset = totp.hmac[20] % 16
            /\ offset \in 0..15
            /\ \A k \in 0..3 : offset + k \in 0..19
            /\ binaryOf(totp.hmac) \in 0..2147483647

\* the offset is 15 and the four bytes are all 255: binary is 2^31 - 1
C27_Witness ==
    /\ totp.pc = "fulfilled"
    /\ offsetOf(totp.hmac) = 15
    /\ totp.hmac[16] = 255
    /\ binaryOf(totp.hmac) = 2147483647

\* C28: the eight bytes are the big-endian encoding of the counter
\* c = hi * 2^26 + lo < 2^53: each is in 0..255 and their value is c (the
\* top byte is 0, the next 27 bits are hi, the low 26 bits are lo).
C28_BigEndianCounter ==
    pure.fn = "numberToBytes" =>
        LET b == pure.result
        IN  /\ Len(b) = 8
            /\ \A i \in 1..8 : b[i] \in 0..255
            /\ b[1] = 0
            /\ b[2] < 32
            /\ ((b[2] * 256 + b[3]) * 256 + b[4]) * 64
                  + (b[5] \div 4) = pure.arg.hi
            /\ (((b[5] % 4) * 256 + b[6]) * 256 + b[7]) * 256 + b[8]
                  = pure.arg.n

\* a counter of 2^32 or more whose low byte and whose byte of weight 2^32
\* are not zero
C28_Witness ==
    /\ pure.fn = "numberToBytes"
    /\ pure.arg.hi >= 64
    /\ pure.result[8] # 0
    /\ pure.result[4] # 0
\* C30: generatePassword returns exactly `length` characters, with at least
\* one character of every selected type, whatever the random source delivers.
C30_EverySelectedTypePresent ==
    pure.fn = "generatePassword" =>
        LET options == pure.arg.options
        IN  /\ Len(pure.result) = options.length
            /\ \A t \in 1..Len(CharacterTypes) :
                  options[CharacterTypes[t]] =>
                      containsAny(pure.result, CHARSETS[CharacterTypes[t]])
\* C31: the code-refresh loop is running exactly when the authenticator tab
\* is the active tab, from the moment init has finished.
C31_LoopRunsIffAuthenticatorTab ==
    (popup.totpUpdateInterval # 0) <=> (popup.activeTab = "authenticator")
\* C32: once a checkbox change event has been handled, at least one of
\* uppercase, lowercase, numbers and symbols is selected in currentOptions.
C32_OneTypeStaysSelected ==
    popup.lastChange # NoChange =>
        \E type \in CheckboxTypes : popup.currentOptions[type]

\* the last selected type was unchecked and has been selected again
C32_Witness ==
    /\ popup.lastChange # NoChange
    /\ ~popup.lastChange.checked
    /\ popup.currentOptions[popup.lastChange.type]
    /\ \A type \in CheckboxTypes \ {popup.lastChange.type} :
          ~popup.currentOptions[type]
\* C33: in a refreshed row, the remaining seconds shown are the time left
\* in the time step whose counter produced the code shown: with c the
\* counter generateTOTP used and t the second at which the row was written,
\* remaining = (c + 1) * period - t.
C33_CodeAndTimerSameStep ==
    (popup.refresh.pc = "shown" /\ ~popup.refresh.error) =>
        LET r == popup.refresh
            c == CounterOf(r.timestamp, r.period).n
        IN  r.remaining = Finite((c + 1) * r.period - (r.readAt \div 1000))
\* C34: whenever no add, delete or import handler is in flight, the popup's
\* in-memory account list equals the persisted collection.
C34_ListMatchesStorageAtRest ==
    (\A h \in Handlers : popup.handlers[h].pc = "done") =>
        popup.accounts = get(storage, STORAGE_KEYS.ACCOUNTS, <<>>)

\* two handlers have interleaved, both are done, and a record is stored
C34_Witness ==
    /\ Len(popup.handlers) = 2
    /\ \A h \in Handlers : popup.handlers[h].pc = "done"
    /\ \E h \in Handlers : popup.handlers[h].during # {}
    /\ popup.lastWriter # 0
    /\ Len(popup.accounts) > 0

====
